---- MODULE Spec2Model ----
(***************************************************************************)
(* Verification model of the Incentiv ETL repository.                      *)
(*                                                                         *)
(*   SpecReorg : src/src/handlers/reorg_handler.py  (ReorgHandler)         *)
(*   SpecLogs  : src/src/pipeline.py (run_logs_etl, load_state, save_state)*)
(*               with src/src/handlers/dlq.py (DeadLetterQueue.send)       *)
(*   SpecChain : src/src/pipeline.py (run_blocks_transactions_etl)         *)
(*   SpecBisect: src/scripts/verify_backfill.py and                        *)
(*               src/scripts/generate_final_proof.py (get_rpc_logs)        *)
(*   SpecHttp  : src/src/utils/http.py (HttpClient._request)               *)
(*   SpecSig   : src/src/transformers/decoded_logs.py (_event_signature)   *)
(*               and src/scripts/verify_abi.py (event_topic0)              *)
(*   SpecDecode: src/src/transformers/decoded_logs.py (decode_logs) with   *)
(*               src/src/transformers/event_router.py                      *)
(*   SpecSync  : src/fetch_sync_to_dune.py (__main__, read_last_block,     *)
(*               write_last_block, upload_to_dune)                         *)
(*   SpecRows  : src/src/pipeline.py (enrich_logs_with_timestamps, the try *)
(*               block of a pair), src/src/transformers/logs.py, the sink  *)
(*                                                                         *)
(* An Optional[int] is a sequence of length 0 (None) or 1 (<<n>>).         *)
(***************************************************************************)
EXTENDS Integers, Sequences, FiniteSets, TLC

\* ------------------------------------------------------------------ bounds
\* Largest buffer_size a ReorgHandler is constructed with.
MaxBufferSize == 3
\* Block hashes are drawn from 1..NumHashes.
NumHashes == 3

\* Highest block number the chain head (and any --from-block/--to-block) takes.
MaxBlock == 3
\* Largest batch_size the chain configuration gives the extractor.
MaxBatch == 2
\* Wall-clock instants (file names of the dead-letter directory) are 0..MaxClock.
MaxClock == 1

\* The interpreter's recursion limit, in frames of get_rpc_logs.
RecursionLimit == 4

\* Largest max_retries an HttpClient is constructed with.
MaxRetries == 4

\* Most inputs an event descriptor has.
MaxInputs == 2

\* Most logs a batch handed to decode_logs holds.
MaxLogs == 3

\* Most completed runs of one pair over the same window.
MaxRuns == 2

\* Highest block number the chain's latest block takes in fetch_sync_to_dune.
MaxHead == 3
\* Largest BLOCK_BATCH_SIZE the environment gives fetch_sync_to_dune.
MaxSyncBatch == 2
\* Largest REORG_OVERLAP_BLOCKS the environment gives it.
MaxOverlap == 1

VARIABLES
    \* pipeline.py (one pair of one window, its rows) and the sink
    node_logs,      \* the logs the node holds for the pair and window
    blocks_map,     \* what get_blocks_by_number returned in the last run
    enriched,       \* the logs after enrich_logs_with_timestamps (last run)
    df,             \* the frame normalize_logs returned (last run), as rows
    sink,           \* the rows of the destination table
    pair_result,    \* how the last run of the try block ended: "ok", "no_logs",
                    \* the stage that raised, "none" before the first run
    completed,      \* the number of runs that ended "ok" or "no_logs"
    \* history, kept for the claims
    df_first_keys,  \* the deduplication keys of df after the first completed run
    sink_first_keys,\* those of the sink's rows after the first completed run
    \* fetch_sync_to_dune.py
    chain_head,     \* the number of the chain's latest block
    chain_logs,     \* the blocks of the chain that hold a log
    last_block_file,\* the text of last_block.txt, as decimal digits (<<>>:
                    \* the file is missing or empty)
    \* history of the last run of the script, kept for the claims
    sync_result,    \* how it ended ("none": no run yet)
    sync_batch,     \* its BLOCK_BATCH_SIZE
    sync_overlap,   \* its REORG_OVERLAP_BLOCKS
    sync_latest,    \* its latest
    sync_last,      \* its last (Optional[int]), as read_last_block returned it
    sync_start,     \* its start
    sync_end,       \* its end
    \* decode_logs
    logs,           \* the batch decode_logs was called with
    result,         \* the dict of frames it returned (table -> columns, rows)
    decode_pc,      \* "idle": no call yet; "returned" or "raised": how it ended
    \* _event_signature / event_topic0
    caller,         \* the function called last ("none": none yet)
    event_abi,      \* the descriptor it was called with
    signature,      \* the signature text it built
    topic0,         \* the key it returned (Optional)
    \* history, kept for the claims
    relation,       \* the previous call's descriptor against this one:
                    \* "identical", "same_signature" (same name and types, other
                    \* parameter names or indexed flags), "different", "none"
    prev_signature, \* the previous call's signature, unless "different"
    prev_topic0,    \* the previous call's key, unless "different"
    \* pipeline.py (blocks/transactions stream)
    chain_file,         \* last_chain_block as load_state reads it from state.json
    chain_state,        \* state.get("last_chain_block") of the in-memory dict
    chain_pc,           \* where the process is
    chain_from_block,   \* args.from_block
    chain_to_block,     \* args.to_block
    chain_dry_run,      \* args.dry_run
    want_blocks,        \* args.blocks
    want_transactions,  \* args.transactions
    chain_safe_block,   \* run_blocks_transactions_etl's safe_block
    chain_start_block,  \* its start_block
    chain_start,        \* its loop's start (= end: batch_size is 1)
    \* history of the run, kept for the claims
    chain_failed,       \* batches (their start) of this run whose try block raised
    chain_missing,      \* batches of this run for which no header came back
    handed,             \* blocks of this run handed to normalization and upload
    chain_last_good,    \* the last last_chain_block written completely (0: none)
    \* HttpClient
    max_retries,    \* self.max_retries
    http_pc,        \* "new": no client yet; "idle": no request running;
                    \* "attempt": at the top of the loop body; "returned",
                    \* "raised": how the last _request ended
    attempt,        \* the loop variable of _request
    last_exc,       \* _request's last_exc: the attempt whose exception it holds
    response,       \* the attempt whose response _request returned
    outcomes,       \* history: what each attempt of this _request met
    \* scripts: get_rpc_logs
    script,         \* the script whose get_rpc_logs is running ("none": none yet)
    rpc_range,      \* <<from_block, to_block>> of the outermost call
    log_blocks,     \* the blocks of the chain that hold one matching log each
    call_stack,     \* the frames of get_rpc_logs, outermost first
    returned,       \* what the outermost call returned (Optional[int])
    raised,         \* the exception that left the outermost call ("none": none)
    \* history of the call, kept for the claims
    answered,       \* the ranges the upstream answered with logs, in call order
    single_rejected,\* blocks whose single-block query was rejected as oversized
    recursed_single,\* a frame with from_block = to_block called get_rpc_logs
    only_oversized, \* every rejection so far was an oversized-response one
    always_rejected,\* every query so far was rejected as oversized
    \* pipeline.py (logs stream) and dlq.py
    state_file,     \* last_block as load_state reads it from state.json
                    \* (<<>>: file missing, empty or unparseable, or no such key)
    state,          \* state.get("last_block") of the in-memory state dict
    pc,             \* where the process is
    from_block,     \* args.from_block (Optional[int])
    to_block,       \* args.to_block (Optional[int])
    dry_run,        \* args.dry_run
    batch_size,     \* extractor.batch_size
    safe_block,     \* run_logs_etl's safe_block
    start_block,    \* run_logs_etl's start_block
    start,          \* the window loop's start
    end,            \* the window loop's end
    ci,             \* position of the contracts loop
    ti,             \* position of the topics loop
    dlq_files,      \* the dead-letter files named after an instant of this
                    \* process's lifetime: instant -> Optional record (files of
                    \* earlier processes carry earlier names; no send reaches them)
    clock,          \* the wall clock at the last DeadLetterQueue.send
    \* history of the run, kept for the claims
    attempted,      \* <<contract, topic>> pairs of this window tried so far
    failed,         \* <<contract, topic>> pairs of this window that raised
    run_failed,     \* some pair of some window of this run raised
    covered,        \* blocks whose window had every pair tried in this run
    last_good,      \* the last cursor value save_state wrote completely (0: none)
    \* ReorgHandler
    buffer_size,    \* self.buffer_size (0: no handler constructed yet)
    block_buffer,   \* self.block_buffer, oldest first
    op,             \* the last call made on the handler
    arg,            \* the block handed to the last add_block call
    ret,            \* what the last add_block call returned (Optional[int])
    before,         \* self.block_buffer as it was when the last call began
    confirmed       \* what the last call returned, if it was
                    \* get_confirmed_blocks (<<>> after any other call)

reorgVars == <<buffer_size, block_buffer, op, arg, ret, before, confirmed>>

logsVars == <<state_file, state, pc, from_block, to_block, dry_run, batch_size,
              safe_block, start_block, start, end, ci, ti, dlq_files, clock,
              attempted, failed, run_failed, covered, last_good>>

bisectVars == <<script, rpc_range, log_blocks, call_stack, returned, raised,
                answered, single_rejected, recursed_single, only_oversized,
                always_rejected>>

httpVars == <<max_retries, http_pc, attempt, last_exc, response, outcomes>>

chainVars == <<chain_file, chain_state, chain_pc, chain_from_block,
               chain_to_block, chain_dry_run, want_blocks, want_transactions,
               chain_safe_block, chain_start_block, chain_start, chain_failed,
               chain_missing, handed, chain_last_good>>

sigVars == <<caller, event_abi, signature, topic0, relation, prev_signature,
             prev_topic0>>

decodeVars == <<logs, result, decode_pc>>

syncVars == <<chain_head, chain_logs, last_block_file, sync_result,
              sync_batch, sync_overlap, sync_latest, sync_last, sync_start,
              sync_end>>

rowsVars == <<node_logs, blocks_map, enriched, df, sink, pair_result,
              completed, df_first_keys, sink_first_keys>>

vars == <<rowsVars, syncVars, reorgVars, logsVars, bisectVars, httpVars, chainVars, sigVars,
          decodeVars>>

\* What each component's steps leave alone.
notReorg == <<rowsVars, syncVars, logsVars, bisectVars, httpVars, chainVars, sigVars,
    decodeVars>>

notLogs == <<rowsVars, syncVars, reorgVars, bisectVars, httpVars, chainVars, sigVars,
    decodeVars>>

notBisect == <<rowsVars, syncVars, reorgVars, logsVars, httpVars, chainVars, sigVars,
    decodeVars>>

notHttp == <<rowsVars, syncVars, reorgVars, logsVars, bisectVars, chainVars, sigVars,
    decodeVars>>

notChain == <<rowsVars, syncVars, reorgVars, logsVars, bisectVars, httpVars, sigVars,
    decodeVars>>

notSig == <<rowsVars, syncVars, reorgVars, logsVars, bisectVars, httpVars, chainVars,
    decodeVars>>

notDecode == <<rowsVars, syncVars, reorgVars, logsVars, bisectVars, httpVars, chainVars, sigVars>>

notSync == <<rowsVars, reorgVars, logsVars, bisectVars, httpVars, chainVars, sigVars,
    decodeVars>>

notRows == <<reorgVars, logsVars, bisectVars, httpVars, chainVars, sigVars,
    decodeVars, syncVars>>

\* ============================================================ ReorgHandler

Hashes == 1..NumHashes

\* A block as add_block reads it: block["hash"], block["parent_hash"].
Blocks == [hash : Hashes, parent_hash : Hashes]

None == <<>>

Some(n) == <<n>>

MinNat(a, b) == IF a <= b THEN a ELSE b

\* Mutant of DequeAppend: a full deque drops its rightmost (newest) item.
DequeAppend_DropNewest(buf, x, maxlen) ==
    IF maxlen = 0 THEN buf
    ELSE IF Len(buf) >= maxlen THEN Append(SubSeq(buf, 1, Len(buf) - 1), x)
    ELSE Append(buf, x)

\* Mutant of DequeAppend: a plain list, no maxlen.
DequeAppend_Unbounded(buf, x, maxlen) ==
    Append(buf, x)

\* deque(maxlen=n).append(x): a full deque drops its leftmost (oldest) item.
DequeAppend(buf, x, maxlen) ==
    IF maxlen = 0 THEN buf
    ELSE IF Len(buf) >= maxlen THEN Append(Tail(buf), x)
    ELSE Append(buf, x)

\* Mutant of FindForkPoint: enumerate(self.block_buffer), oldest first.
FindForkPoint_FromOldest(buf, parent_hash) ==
    LET hits == {d \in 0..(Len(buf) - 1) : buf[d + 1].hash = parent_hash}
    IN  IF hits = {} THEN Len(buf)
        ELSE CHOOSE d \in hits : \A e \in hits : d <= e

\* Mutant of FindForkPoint: depths counted from 1 (enumerate(..., start=1)).
FindForkPoint_OffByOne(buf, parent_hash) ==
    LET hits == {d \in 0..(Len(buf) - 1) : buf[Len(buf) - d].hash = parent_hash}
    IN  IF hits = {} THEN Len(buf)
        ELSE 1 + (CHOOSE d \in hits : \A e \in hits : d <= e)

\* _find_fork_point: enumerate(reversed(buffer)); the first depth whose header
\* has the parent hash, else len(buffer).
FindForkPoint(buf, parent_hash) ==
    LET hits == {d \in 0..(Len(buf) - 1) : buf[Len(buf) - d].hash = parent_hash}
    IN  IF hits = {} THEN Len(buf)
        ELSE CHOOSE d \in hits : \A e \in hits : d <= e

\* Mutant of Rollback: range(depth - 1), one pop short.
Rollback_OneShort(buf, depth) ==
    SubSeq(buf, 1, Len(buf) - MinNat(IF depth > 0 THEN depth - 1 ELSE 0, Len(buf)))

\* _rollback: pop from the right, depth times, while the buffer is not empty.
Rollback(buf, depth) ==
    SubSeq(buf, 1, Len(buf) - MinNat(depth, Len(buf)))

\* Mutant of AddBlockResult: the fork branch appends without rolling back.
AddBlockResult_NoRollback(buf, block, maxlen) ==
    IF buf = <<>>
    THEN [buffer |-> DequeAppend(buf, block, maxlen), ret |-> None]
    ELSE IF block.parent_hash = buf[Len(buf)].hash
    THEN [buffer |-> DequeAppend(buf, block, maxlen), ret |-> None]
    ELSE [buffer |-> DequeAppend(buf, block, maxlen),
          ret    |-> Some(FindForkPoint(buf, block.parent_hash))]

\* add_block as a function of the buffer: the new buffer and the return value.
AddBlockResult(buf, block, maxlen) ==
    IF buf = <<>>
    THEN [buffer |-> DequeAppend(buf, block, maxlen), ret |-> None]
    ELSE IF block.parent_hash = buf[Len(buf)].hash
    THEN [buffer |-> DequeAppend(buf, block, maxlen), ret |-> None]
    ELSE LET reorg_depth == FindForkPoint(buf, block.parent_hash)
         IN  [buffer |-> DequeAppend(Rollback(buf, reorg_depth), block, maxlen),
              ret    |-> Some(reorg_depth)]

\* Mutant of ConfirmedBlocks: <= in place of <.
ConfirmedBlocks_Le(buf, size) ==
    IF Len(buf) <= size THEN <<>> ELSE <<buf[1]>>

\* get_confirmed_blocks as a function of the buffer.
ConfirmedBlocks(buf, size) ==
    IF Len(buf) < size THEN <<>> ELSE <<buf[1]>>

InitReorg ==
    /\ buffer_size = 0
    /\ block_buffer = <<>>
    /\ op = "none"
    /\ arg = [hash |-> 1, parent_hash |-> 1]
    /\ ret = None
    /\ before = <<>>
    /\ confirmed = <<>>

\* ReorgHandler.__init__(buffer_size), for a capacity of at least one header
\* (with buffer_size 0 the deque keeps nothing and get_confirmed_blocks raises
\* IndexError on block_buffer[0]).
Construct(n) ==
    /\ buffer_size = 0
    /\ buffer_size' = n
    /\ block_buffer' = <<>>
    /\ op' = "init"
    /\ UNCHANGED <<arg, ret, before, confirmed, notReorg>>

\* ReorgHandler.add_block(block)
add_block(block) ==
    /\ buffer_size > 0
    /\ LET r == AddBlockResult(block_buffer, block, buffer_size)
       IN  /\ block_buffer' = r.buffer
           /\ ret' = r.ret
    /\ op' = "add_block"
    /\ arg' = block
    /\ before' = block_buffer
    /\ confirmed' = <<>>
    /\ UNCHANGED <<buffer_size, notReorg>>

\* ReorgHandler.get_confirmed_blocks()
get_confirmed_blocks ==
    /\ buffer_size > 0
    /\ confirmed' = ConfirmedBlocks(block_buffer, buffer_size)
    /\ op' = "get_confirmed_blocks"
    /\ before' = block_buffer
    /\ UNCHANGED <<buffer_size, block_buffer, arg, ret, notReorg>>

NextReorg ==
    \/ \E n \in 1..MaxBufferSize : Construct(n)
    \/ \E block \in Blocks : add_block(block)
    \/ get_confirmed_blocks


\* ================================================= pipeline.py: run_logs_etl

\* event_config["contracts"] and event_config["topics"], in dict order.
Contracts == <<"dex_pool", "token">>

Topics == <<"Swap">>

AllPairs == {<<Contracts[c], Topics[t]>> : c \in 1..Len(Contracts), t \in 1..Len(Topics)}

Instants == 0..MaxClock

\* The stages of one pair's try block that can raise.
Stages(dry) ==
    {"get_logs", "get_blocks_by_number", "normalize_logs"}
        \cup (IF dry THEN {} ELSE {"upload_dataframe"})

\* state.get("last_block", 0)
GetLastBlock(st) == IF st = None THEN 0 ELSE st[1]

\* load_state: {} when the file is missing or json.loads raises.
LoadState(file) == file

\* args.x if args.x is not None else dflt
OrElse(opt, dflt) == IF opt = None THEN dflt ELSE opt[1]

\* Mutant of WindowEnd: start + batch_size - 1, not clamped to safe_block.
WindowEnd_NoClamp(s, bs, safe) == s + bs - 1

\* Mutant of WindowEnd: the end is the next window's start.
WindowEnd_Exclusive(s, bs, safe) == MinNat(s + bs, safe)

\* min(start + batch_size - 1, safe_block)
WindowEnd(s, bs, safe) == MinNat(s + bs - 1, safe)

\* The record and context DeadLetterQueue.send is called with.
DlqRecord(contract_name, topic_name, s, e) ==
    [contract |-> contract_name, topic |-> topic_name, from_block |-> s, to_block |-> e]

\* DeadLetterQueue.send: the file is named after utcnow(), so a send at an
\* instant that already has a file replaces that file's content.
DlqWrite(files, t, payload) == [files EXCEPT ![t] = Some(payload)]

DlqSend(payload) ==
    \E t \in clock..MaxClock :
        /\ clock' = t
        /\ dlq_files' = DlqWrite(dlq_files, t, payload)

InitLogs ==
    /\ state_file = None
    /\ state = None
    /\ pc = "idle"
    /\ from_block = None
    /\ to_block = None
    /\ dry_run = FALSE
    /\ batch_size = 1
    /\ safe_block = 0
    /\ start_block = 0
    /\ start = 0
    /\ end = 0
    /\ ci = 1
    /\ ti = 1
    /\ dlq_files = [t \in Instants |-> None]
    /\ clock = 0
    /\ attempted = {}
    /\ failed = {}
    /\ run_failed = FALSE
    /\ covered = {}
    /\ last_good = 0

\* --from-block and --to-block as given on the command line.
FromBlocks == {None} \cup {Some(b) : b \in 1..MaxBlock}

ToBlocks == {None} \cup {Some(b) : b \in 0..MaxBlock}

\* The process is gone: nothing of its memory is left, and the instants of its
\* lifetime are past.
ForgetMemory ==
    /\ dlq_files' = [t \in Instants |-> None]
    /\ clock' = 0
    /\ state' = None
    /\ from_block' = None
    /\ to_block' = None
    /\ dry_run' = FALSE
    /\ batch_size' = 1
    /\ safe_block' = 0
    /\ start_block' = 0
    /\ start' = 0
    /\ end' = 0
    /\ ci' = 1
    /\ ti' = 1
    /\ attempted' = {}
    /\ failed' = {}
    /\ run_failed' = FALSE
    /\ covered' = {}

\* main() up to the first window of run_logs_etl: load_state, the safe head,
\* the start block, the early return.
StartRun(fb, tb, dry, bs, head) ==
    /\ pc = "idle"
    /\ from_block' = fb
    /\ to_block' = tb
    /\ dry_run' = dry
    /\ batch_size' = bs
    /\ state' = LoadState(state_file)
    /\ LET last_block == GetLastBlock(LoadState(state_file))
           safe == OrElse(tb, head)
           first == OrElse(fb, last_block + 1)
       IN  /\ safe_block' = safe
           /\ start_block' = first
           /\ start' = first
           /\ end' = WindowEnd(first, bs, safe)
           /\ pc' = IF first > safe THEN "done" ELSE "pair"
    /\ ci' = 1
    /\ ti' = 1
    /\ attempted' = {}
    /\ failed' = {}
    /\ run_failed' = FALSE
    /\ covered' = {}
    /\ UNCHANGED <<state_file, dlq_files, clock, last_good, notLogs>>

\* extractor.get_safe_block_number() raises: nothing catches it, main exits.
HeadLookupFails(fb, dry, bs) ==
    /\ pc = "idle"
    /\ from_block' = fb
    /\ to_block' = None
    /\ dry_run' = dry
    /\ batch_size' = bs
    /\ state' = LoadState(state_file)
    /\ pc' = "aborted"
    /\ attempted' = {}
    /\ failed' = {}
    /\ run_failed' = FALSE
    /\ covered' = {}
    /\ UNCHANGED <<state_file, safe_block, start_block, start, end, ci, ti,
                   dlq_files, clock, last_good, notLogs>>

\* Mutant of AfterPair: lines 107-108 indented into the pair loop, so the
\* cursor is saved after the first pair.
AfterPair_SaveEarly == [pc |-> "save", ci |-> ci, ti |-> ti]

\* The loop position after the pair (ci, ti): the next topic, the next
\* contract, or the end of the window's pairs (line 107).
AfterPair ==
    IF ti < Len(Topics) THEN [pc |-> "pair", ci |-> ci, ti |-> ti + 1]
    ELSE IF ci < Len(Contracts) THEN [pc |-> "pair", ci |-> ci + 1, ti |-> 1]
    ELSE [pc |-> "save", ci |-> ci, ti |-> ti]

Advance ==
    /\ pc' = AfterPair.pc
    /\ ci' = AfterPair.ci
    /\ ti' = AfterPair.ti

\* Mutant of OnPairException: the handler re-raises after dlq.send (as the
\* blocks/transactions stream does), which ends the run.
OnPairException_Reraise(contract_name, topic_name) ==
    /\ DlqSend(DlqRecord(contract_name, topic_name, start, end))
    /\ pc' = "aborted"
    /\ UNCHANGED <<ci, ti>>

\* What the except clause of the pair's try block does with the exception.
OnPairException(contract_name, topic_name) ==
    /\ DlqSend(DlqRecord(contract_name, topic_name, start, end))
    /\ Advance

\* One (contract, topic) pair of the window whose try block ends normally:
\* no logs (continue), or logs enriched, normalized and printed or uploaded.
PairSucceeds(has_logs) ==
    /\ pc = "pair"
    /\ attempted' = attempted \cup {<<Contracts[ci], Topics[ti]>>}
    /\ Advance
    /\ UNCHANGED <<state_file, state, from_block, to_block, dry_run, batch_size,
                   safe_block, start_block, start, end, dlq_files, clock,
                   failed, run_failed, covered, last_good, notLogs>>

\* One pair of the window whose try block raises at some stage.
PairRaises(stage) ==
    /\ pc = "pair"
    /\ stage \in Stages(dry_run)
    /\ attempted' = attempted \cup {<<Contracts[ci], Topics[ti]>>}
    /\ failed' = failed \cup {<<Contracts[ci], Topics[ti]>>}
    /\ run_failed' = TRUE
    /\ OnPairException(Contracts[ci], Topics[ti])
    /\ UNCHANGED <<state_file, state, from_block, to_block, dry_run, batch_size,
                   safe_block, start_block, start, end, covered, last_good,
                   notLogs>>

\* Lines 107-108, first half: state["last_block"] = end, and write_text opens
\* state.json for writing, which truncates it.
SaveTruncate ==
    /\ pc = "save"
    /\ state' = Some(end)
    /\ state_file' = None
    /\ covered' = covered \cup (start..end)
    /\ pc' = "write"
    /\ UNCHANGED <<from_block, to_block, dry_run, batch_size, safe_block,
                   start_block, start, end, ci, ti, dlq_files, clock, attempted,
                   failed, run_failed, last_good, notLogs>>

\* Line 108, second half: the JSON text reaches the file.
SaveWrite ==
    /\ pc = "write"
    /\ state_file' = state
    /\ last_good' = GetLastBlock(state)
    /\ pc' = "next"
    /\ UNCHANGED <<state, from_block, to_block, dry_run, batch_size, safe_block,
                   start_block, start, end, ci, ti, dlq_files, clock, attempted,
                   failed, run_failed, covered, notLogs>>

\* Line 80: the next value of range(start_block, safe_block + 1, batch_size).
NextWindow ==
    /\ pc = "next"
    /\ IF start + batch_size > safe_block
       THEN /\ pc' = "done"
            /\ UNCHANGED <<start, end, ci, ti, attempted, failed>>
       ELSE /\ pc' = "pair"
            /\ start' = start + batch_size
            /\ end' = WindowEnd(start + batch_size, batch_size, safe_block)
            /\ ci' = 1
            /\ ti' = 1
            /\ attempted' = {}
            /\ failed' = {}
    /\ UNCHANGED <<state_file, state, from_block, to_block, dry_run, batch_size,
                   safe_block, start_block, dlq_files, clock, run_failed, covered,
                   last_good, notLogs>>

\* The process is killed (power loss, SIGKILL) wherever it is.
Crash ==
    /\ pc \in {"pair", "save", "write", "next"}
    /\ pc' = "idle"
    /\ ForgetMemory
    /\ UNCHANGED <<state_file, last_good, notLogs>>

\* main() returns, or the uncaught exception ends the process.
Exit ==
    /\ pc \in {"done", "aborted"}
    /\ pc' = "idle"
    /\ ForgetMemory
    /\ UNCHANGED <<state_file, last_good, notLogs>>

NextLogs ==
    \/ \E fb \in FromBlocks, tb \in ToBlocks, dry \in BOOLEAN,
          bs \in 1..MaxBatch, head \in 0..MaxBlock :
            StartRun(fb, tb, dry, bs, head)
    \/ \E fb \in FromBlocks, dry \in BOOLEAN, bs \in 1..MaxBatch :
            HeadLookupFails(fb, dry, bs)
    \/ \E has_logs \in BOOLEAN : PairSucceeds(has_logs)
    \/ \E stage \in Stages(dry_run) : PairRaises(stage)
    \/ SaveTruncate
    \/ SaveWrite
    \/ NextWindow
    \/ Crash
    \/ Exit

\* ================================ pipeline.py: run_blocks_transactions_etl

\* batch_size = 1 (line 131): every batch is the single block start = end.
ChainBatchSize == 1

\* --blocks / --transactions: main runs the stream when either is given.
StreamFlags == {<<TRUE, FALSE>>, <<FALSE, TRUE>>, <<TRUE, TRUE>>}

\* The stages of a batch's try block that can raise.
ChainStages(blocks_flag, txs_flag, dry) ==
    {"get_blocks_by_number"}
        \cup (IF blocks_flag THEN {"normalize_blocks"} ELSE {})
        \cup (IF blocks_flag /\ ~dry THEN {"upload_blocks"} ELSE {})
        \cup (IF txs_flag THEN {"normalize_transactions"} ELSE {})
        \cup (IF txs_flag /\ ~dry THEN {"upload_transactions"} ELSE {})

InitChain ==
    /\ chain_file = None
    /\ chain_state = None
    /\ chain_pc = "idle"
    /\ chain_from_block = None
    /\ chain_to_block = None
    /\ chain_dry_run = FALSE
    /\ want_blocks = TRUE
    /\ want_transactions = FALSE
    /\ chain_safe_block = 0
    /\ chain_start_block = 0
    /\ chain_start = 0
    /\ chain_failed = {}
    /\ chain_missing = {}
    /\ handed = {}
    /\ chain_last_good = 0

ChainForgetMemory ==
    /\ chain_state' = None
    /\ chain_from_block' = None
    /\ chain_to_block' = None
    /\ chain_dry_run' = FALSE
    /\ want_blocks' = TRUE
    /\ want_transactions' = FALSE
    /\ chain_safe_block' = 0
    /\ chain_start_block' = 0
    /\ chain_start' = 0
    /\ chain_failed' = {}
    /\ chain_missing' = {}
    /\ handed' = {}

\* main() with --blocks and/or --transactions up to the first batch (lines
\* 121-135): load_state, the safe head, the start block, the early return.
ChainStartRun(fb, tb, dry, flags, head) ==
    /\ chain_pc = "idle"
    /\ chain_from_block' = fb
    /\ chain_to_block' = tb
    /\ chain_dry_run' = dry
    /\ want_blocks' = flags[1]
    /\ want_transactions' = flags[2]
    /\ chain_state' = LoadState(chain_file)
    /\ LET last_block == GetLastBlock(LoadState(chain_file))
           safe == OrElse(tb, head)
           first == OrElse(fb, last_block + 1)
       IN  /\ chain_safe_block' = safe
           /\ chain_start_block' = first
           /\ chain_start' = first
           /\ chain_pc' = IF first > safe THEN "done" ELSE "batch"
    /\ chain_failed' = {}
    /\ chain_missing' = {}
    /\ handed' = {}
    /\ UNCHANGED <<chain_file, chain_last_good, notChain>>

\* extractor.get_safe_block_number() raises (line 123): main exits.
ChainHeadLookupFails(fb, dry, flags) ==
    /\ chain_pc = "idle"
    /\ chain_from_block' = fb
    /\ chain_to_block' = None
    /\ chain_dry_run' = dry
    /\ want_blocks' = flags[1]
    /\ want_transactions' = flags[2]
    /\ chain_state' = LoadState(chain_file)
    /\ chain_pc' = "aborted"
    /\ chain_failed' = {}
    /\ chain_missing' = {}
    /\ handed' = {}
    /\ UNCHANGED <<chain_file, chain_safe_block, chain_start_block, chain_start,
                   chain_last_good, notChain>>

\* The except clause of the batch's try block (lines 176-179): print, and
\* re-raise unless this is a dry run. No dead-letter record is written.
OnBatchException(dry) == IF dry THEN "next" ELSE "aborted"

\* A batch whose try block ends normally up to line 172: the header came
\* back and was normalized and printed or uploaded as the flags say.
BatchSucceeds ==
    /\ chain_pc = "batch"
    /\ handed' = handed \cup {chain_start}
    /\ chain_pc' = "save"
    /\ UNCHANGED <<chain_file, chain_state, chain_from_block, chain_to_block,
                   chain_dry_run, want_blocks, want_transactions,
                   chain_safe_block, chain_start_block, chain_start,
                   chain_failed, chain_missing, chain_last_good, notChain>>

\* get_blocks_by_number returns an empty map (lines 144-145): continue.
BatchEmpty ==
    /\ chain_pc = "batch"
    /\ chain_missing' = chain_missing \cup {chain_start}
    /\ chain_pc' = "next"
    /\ UNCHANGED <<chain_file, chain_state, chain_from_block, chain_to_block,
                   chain_dry_run, want_blocks, want_transactions,
                   chain_safe_block, chain_start_block, chain_start,
                   chain_failed, handed, chain_last_good, notChain>>

\* A batch whose try block raises at some stage.
BatchRaises(stage) ==
    /\ chain_pc = "batch"
    /\ stage \in ChainStages(want_blocks, want_transactions, chain_dry_run)
    /\ chain_failed' = chain_failed \cup {chain_start}
    /\ handed' = IF stage = "get_blocks_by_number" THEN handed
                 ELSE handed \cup {chain_start}
    /\ chain_pc' = OnBatchException(chain_dry_run)
    /\ UNCHANGED <<chain_file, chain_state, chain_from_block, chain_to_block,
                   chain_dry_run, want_blocks, want_transactions,
                   chain_safe_block, chain_start_block, chain_start,
                   chain_missing, chain_last_good, notChain>>

\* Lines 173-174, first half: state["last_chain_block"] = end, and write_text
\* opens state.json for writing, which truncates it.
ChainSaveTruncate ==
    /\ chain_pc = "save"
    /\ chain_state' = Some(MinNat(chain_start + ChainBatchSize - 1, chain_safe_block))
    /\ chain_file' = None
    /\ chain_pc' = "write"
    /\ UNCHANGED <<chain_from_block, chain_to_block, chain_dry_run, want_blocks,
                   want_transactions, chain_safe_block, chain_start_block,
                   chain_start, chain_failed, chain_missing, handed,
                   chain_last_good, notChain>>

\* Line 174, second half: the JSON text reaches the file.
ChainSaveWrite ==
    /\ chain_pc = "write"
    /\ chain_file' = chain_state
    /\ chain_last_good' = GetLastBlock(chain_state)
    /\ chain_pc' = "next"
    /\ UNCHANGED <<chain_state, chain_from_block, chain_to_block, chain_dry_run,
                   want_blocks, want_transactions, chain_safe_block,
                   chain_start_block, chain_start, chain_failed, chain_missing,
                   handed, notChain>>

\* Line 135: the next value of range(start_block, safe_block + 1, batch_size).
ChainNextBatch ==
    /\ chain_pc = "next"
    /\ IF chain_start + ChainBatchSize > chain_safe_block
       THEN chain_pc' = "done" /\ UNCHANGED chain_start
       ELSE chain_pc' = "batch" /\ chain_start' = chain_start + ChainBatchSize
    /\ UNCHANGED <<chain_file, chain_state, chain_from_block, chain_to_block,
                   chain_dry_run, want_blocks, want_transactions,
                   chain_safe_block, chain_start_block, chain_failed,
                   chain_missing, handed, chain_last_good, notChain>>

\* The process is killed wherever it is.
ChainCrash ==
    /\ chain_pc \in {"batch", "save", "write", "next"}
    /\ chain_pc' = "idle"
    /\ ChainForgetMemory
    /\ UNCHANGED <<chain_file, chain_last_good, notChain>>

\* The stream returns and the process ends, or the re-raised exception ends it.
ChainExit ==
    /\ chain_pc \in {"done", "aborted"}
    /\ chain_pc' = "idle"
    /\ ChainForgetMemory
    /\ UNCHANGED <<chain_file, chain_last_good, notChain>>

NextChain ==
    \/ \E fb \in FromBlocks, tb \in ToBlocks, dry \in BOOLEAN,
          flags \in StreamFlags, head \in 0..MaxBlock :
            ChainStartRun(fb, tb, dry, flags, head)
    \/ \E fb \in FromBlocks, dry \in BOOLEAN, flags \in StreamFlags :
            ChainHeadLookupFails(fb, dry, flags)
    \/ BatchSucceeds
    \/ BatchEmpty
    \/ \E stage \in ChainStages(want_blocks, want_transactions, chain_dry_run) :
            BatchRaises(stage)
    \/ ChainSaveTruncate
    \/ ChainSaveWrite
    \/ ChainNextBatch
    \/ ChainCrash
    \/ ChainExit

\* ==================================================== scripts: get_rpc_logs

Scripts == {"verify_backfill", "generate_final_proof"}

\* What one eth_getLogs request can come back with: a result; an "error"
\* member that says too large / 413; any other "error" member; or an
\* exception out of requests.post(...).json() (a 413 page that is not JSON,
\* a timeout).
Outcomes == {"ok", "too_large", "error", "exception"}

\* A frame of get_rpc_logs: its arguments, where it is ("try": about to send
\* the request; "left": inside the first recursive call; "right": inside the
\* second), and the value the first recursive call returned.
Frame(f, t) == [from_block |-> f, to_block |-> t, at |-> "try", left |-> 0]

\* len(resp.get("result", [])) of a request the upstream answers.
LogCount(f, t) == Cardinality(log_blocks \cap (f..t))

\* mid = (from_block + to_block) // 2
Mid(f, t) == (f + t) \div 2

Top(stk) == stk[Len(stk)]

Pop(stk) == SubSeq(stk, 1, Len(stk) - 1)

\* The frame on top returns v: the value goes to the caller, which either
\* makes its second recursive call or returns the sum in turn.
RECURSIVE ReturnValue(_, _)
ReturnValue(stk, v) ==
    LET callers == Pop(stk)
    IN  IF callers = <<>> THEN [call_stack |-> <<>>, returned |-> Some(v), raised |-> "none"]
        ELSE LET c == Top(callers)
             IN  IF c.at = "left"
                 THEN [call_stack |-> Append(Pop(callers), [c EXCEPT !.at = "right", !.left = v])
                                        \o <<Frame(Mid(c.from_block, c.to_block) + 1, c.to_block)>>,
                       returned |-> None, raised |-> "none"]
                 ELSE ReturnValue(callers, c.left + v)

\* The frame on top bisects: get_rpc_logs(from_block, mid) is called first.
\* A call beyond the recursion limit raises RecursionError at the call site,
\* which is inside the except clause of every frame below: nothing catches it.
Bisect(stk) ==
    LET c == Top(stk)
    IN  IF Len(stk) >= RecursionLimit
        THEN [call_stack |-> <<>>, returned |-> None, raised |-> "RecursionError"]
        ELSE [call_stack |-> Append(Pop(stk), [c EXCEPT !.at = "left"])
                               \o <<Frame(c.from_block, Mid(c.from_block, c.to_block))>>,
              returned |-> None, raised |-> "none"]

\* verify_backfill.py lines 41-52 for one response: only a too large / 413
\* "error" member raises; the except clause bisects a range of two blocks or
\* more and returns 0 for a single block.
VerifyBackfillStep(stk, outcome) ==
    LET c == Top(stk)
    IN  CASE outcome = "ok" -> ReturnValue(stk, LogCount(c.from_block, c.to_block))
          [] outcome = "error" -> ReturnValue(stk, 0)
          [] OTHER -> IF c.from_block < c.to_block THEN Bisect(stk)
                      ELSE ReturnValue(stk, 0)

\* generate_final_proof.py lines 24-30 for one response: every "error" member
\* raises, and the bare except bisects whatever the range.
FinalProofStep(stk, outcome) ==
    LET c == Top(stk)
    IN  IF outcome = "ok" THEN ReturnValue(stk, LogCount(c.from_block, c.to_block))
        ELSE Bisect(stk)

InitBisect ==
    /\ script = "none"
    /\ rpc_range = <<1, 1>>
    /\ log_blocks = {}
    /\ call_stack = <<>>
    /\ returned = None
    /\ raised = "none"
    /\ answered = <<>>
    /\ single_rejected = {}
    /\ recursed_single = FALSE
    /\ only_oversized = TRUE
    /\ always_rejected = TRUE

\* check_range / calculate_proof call get_rpc_logs(start, end) of script s on
\* a chain whose matching logs sit in the blocks lb.
Call(s, f, t, lb) ==
    /\ call_stack = <<>>
    /\ f <= t
    /\ script' = s
    /\ rpc_range' = <<f, t>>
    /\ log_blocks' = lb
    /\ call_stack' = <<Frame(f, t)>>
    /\ returned' = None
    /\ raised' = "none"
    /\ answered' = <<>>
    /\ single_rejected' = {}
    /\ recursed_single' = FALSE
    /\ only_oversized' = TRUE
    /\ always_rejected' = TRUE
    /\ UNCHANGED notBisect

\* The frame on top sends its request and the code runs on with the response
\* up to the next request (or to the end of the outermost call).
Request(outcome) ==
    /\ call_stack # <<>>
    /\ LET c == Top(call_stack)
           r == IF script = "verify_backfill"
                THEN VerifyBackfillStep(call_stack, outcome)
                ELSE FinalProofStep(call_stack, outcome)
           rejected == outcome \in {"too_large", "exception"}
       IN  /\ call_stack' = r.call_stack
           /\ returned' = r.returned
           /\ raised' = r.raised
           /\ answered' = IF outcome = "ok"
                          THEN Append(answered, <<c.from_block, c.to_block>>)
                          ELSE answered
           /\ single_rejected' = IF rejected /\ c.from_block = c.to_block
                                 THEN single_rejected \cup {c.from_block}
                                 ELSE single_rejected
           /\ recursed_single' =
                (recursed_single \/ (c.from_block = c.to_block
                                       /\ (Len(r.call_stack) > Len(call_stack)
                                             \/ r.raised # "none")))
           /\ only_oversized' = (only_oversized /\ outcome # "error")
           /\ always_rejected' = (always_rejected /\ rejected)
    /\ UNCHANGED <<script, rpc_range, log_blocks, notBisect>>

NextBisect ==
    \/ \E s \in Scripts, f \in 1..MaxBlock, t \in 1..MaxBlock,
          lb \in SUBSET (1..MaxBlock) : Call(s, f, t, lb)
    \/ \E outcome \in Outcomes : Request(outcome)

\* ================================================== HttpClient._request

\* What one pass through the try block can meet: a response whose JSON is
\* returned, or an exception out of session.request (connection, timeout),
\* raise_for_status (HTTP status) or response.json().
AttemptOutcomes == {"ok", "request_raises", "status_raises", "json_raises"}

\* Mutant of MoreAttempts: range(self.max_retries + 1).
MoreAttempts_OneMore(i, n) == i + 1 < n + 1

\* Whether range(n) has a value after i.
MoreAttempts(i, n) == i + 1 < n

InitHttp ==
    /\ max_retries = 0
    /\ http_pc = "new"
    /\ attempt = 0
    /\ last_exc = None
    /\ response = None
    /\ outcomes = <<>>

\* HttpClient.__init__(base_url, max_retries=n)
NewClient(n) ==
    /\ http_pc = "new"
    /\ max_retries' = n
    /\ http_pc' = "idle"
    /\ UNCHANGED <<attempt, last_exc, response, outcomes, notHttp>>

\* _request is called (lines 33-35): an empty range(max_retries) goes
\* straight to the raise of line 47.
BeginRequest ==
    /\ http_pc \in {"idle", "returned", "raised"}
    /\ attempt' = 0
    /\ last_exc' = None
    /\ response' = None
    /\ outcomes' = <<>>
    /\ http_pc' = IF MoreAttempts(0 - 1, max_retries) THEN "attempt" ELSE "raised"
    /\ UNCHANGED <<max_retries, notHttp>>

\* One pass through the loop body (lines 36-46): the rate-limit sleep, the
\* request, and either the return or the except clause with its backoff
\* sleep (the sleeps only let time pass).
Attempt(outcome) ==
    /\ http_pc = "attempt"
    /\ outcomes' = Append(outcomes, outcome)
    /\ IF outcome = "ok"
       THEN /\ response' = Some(attempt)
            /\ http_pc' = "returned"
            /\ UNCHANGED <<attempt, last_exc>>
       ELSE /\ last_exc' = Some(attempt)
            /\ IF MoreAttempts(attempt, max_retries)
               THEN attempt' = attempt + 1 /\ http_pc' = "attempt"
               ELSE attempt' = attempt /\ http_pc' = "raised"
            /\ UNCHANGED response
    /\ UNCHANGED <<max_retries, notHttp>>

NextHttp ==
    \/ \E n \in 0..MaxRetries : NewClient(n)
    \/ BeginRequest
    \/ \E outcome \in AttemptOutcomes : Attempt(outcome)


\* ===================================== _event_signature and event_topic0

EventNames == {"Transfer", "Approval"}

ParamTypes == {"address", "uint256"}

\* How a parameter of a given type can be declared: its name, its indexed
\* flag. A name is written as the sequence of its camelCase humps, in lower
\* case ("tickLower" is <<"tick", "lower">>, the empty name is <<>>).
ParamDecls ==
    {[name |-> <<"from">>, indexed |-> TRUE],
     [name |-> <<"src">>, indexed |-> FALSE]}

\* The members of an ABI entry's "inputs" list.
AbiInputs ==
    {[type |-> t, name |-> d.name, indexed |-> d.indexed] :
        t \in ParamTypes, d \in ParamDecls}

\* ABI entries of type "event" with at most MaxInputs inputs.
EventAbis ==
    [type : {"event"}, name : EventNames,
     inputs : UNION {[1..k -> AbiInputs] : k \in 0..MaxInputs}]

\* sep.join(items)
RECURSIVE Join(_, _)
Join(sep, items) ==
    IF items = <<>> THEN ""
    ELSE IF Len(items) = 1 THEN items[1]
    ELSE items[1] \o sep \o Join(sep, Tail(items))

\* Mutant of InputTypes: each input contributes its declaration, name included.
InputTypes_WithNames(abi) ==
    [i \in 1..Len(abi.inputs) |->
        abi.inputs[i].type \o " " \o Join("_", abi.inputs[i].name)]

\* input_abi["type"] for input_abi in event_abi.get("inputs", [])
InputTypes(abi) == [i \in 1..Len(abi.inputs) |-> abi.inputs[i].type]

\* f"{event_abi['name']}({types})"
SignatureText(abi) == abi.name \o "(" \o Join(",", InputTypes(abi)) \o ")"

\* keccak(text=...): the digest of a text, taken as collision-free (the digest
\* stands for its text).
Keccak(text) == [keccak |-> text]

\* f"0x{digest.hex()}": bytes.hex() writes lowercase digits.
HexText(digest) == [prefix |-> "0x", digits |-> digest, letters |-> "lower"]

\* str.lower()
Lower(text) == [text EXCEPT !.letters = "lower"]

\* _event_signature: (signature, topic0.lower())
EventSignature(abi) ==
    <<SignatureText(abi), Lower(HexText(Keccak(SignatureText(abi))))>>

\* event_topic0 of verify_abi.py
EventTopic0(abi) == HexText(Keccak(SignatureText(abi)))

SigFunctions == {"_event_signature", "event_topic0"}

\* The ordered parameter types of a descriptor (for the history only).
TypeSequence(abi) == [i \in 1..Len(abi.inputs) |-> abi.inputs[i].type]

InitSig ==
    /\ caller = "none"
    /\ event_abi = [type |-> "event", name |-> "Transfer", inputs |-> <<>>]
    /\ signature = ""
    /\ topic0 = None
    /\ relation = "none"
    /\ prev_signature = None
    /\ prev_topic0 = None

\* Function fn is called with the descriptor abi.
ComputeTopic0(fn, abi) ==
    /\ caller' = fn
    /\ event_abi' = abi
    /\ signature' = SignatureText(abi)
    /\ topic0' = Some(IF fn = "_event_signature" THEN EventSignature(abi)[2]
                      ELSE EventTopic0(abi))
    /\ relation' = IF caller = "none" THEN "none"
                   ELSE IF abi = event_abi THEN "identical"
                   ELSE IF abi.name = event_abi.name
                           /\ TypeSequence(abi) = TypeSequence(event_abi)
                   THEN "same_signature"
                   ELSE "different"
    /\ IF relation' \in {"identical", "same_signature"}
       THEN prev_signature' = Some(signature) /\ prev_topic0' = topic0
       ELSE prev_signature' = None /\ prev_topic0' = None
    /\ UNCHANGED notSig

NextSig ==
    \E fn \in SigFunctions, abi \in EventAbis : ComputeTopic0(fn, abi)


\* ============================================ decode_logs and event_router

EVENT_TABLE_MAP ==
    [Swap |-> "dex_events", Mint |-> "dex_events", Burn |-> "dex_events",
     Collect |-> "dex_events", CollectProtocol |-> "dex_events",
     Flash |-> "dex_events", Initialize |-> "dex_events",
     SetFeeProtocol |-> "dex_events",
     IncreaseObservationCardinalityNext |-> "dex_events",
     Dispatch |-> "hyperlane_events", DispatchId |-> "hyperlane_events",
     Process |-> "hyperlane_events", ProcessId |-> "hyperlane_events",
     DefaultHookSet |-> "hyperlane_events", DefaultIsmSet |-> "hyperlane_events",
     RequiredHookSet |-> "hyperlane_events", Initialized |-> "hyperlane_events",
     OwnershipTransferred |-> "hyperlane_events",
     ReceivedTransferRemote |-> "warp_route_events",
     SentTransferRemote |-> "warp_route_events", GasSet |-> "warp_route_events",
     HookSet |-> "warp_route_events", IsmSet |-> "warp_route_events",
     Transfer |-> "erc20_events", Approval |-> "erc20_events"]

\* The eight columns every table's schema starts with (the keys of the row
\* dict of decode_logs, lines 161-170).
BaseColumns ==
    <<"block_number", "block_timestamp", "tx_hash", "log_index", "address",
      "event_name", "chain", "extracted_at">>

TABLE_SCHEMAS ==
    [dex_events |-> BaseColumns \o
        <<"sender", "recipient", "owner", "amount", "amount0", "amount1",
          "tick_lower", "tick_upper", "sqrt_price_x96", "liquidity", "tick",
          "paid0", "paid1", "fee_protocol0_old", "fee_protocol1_old",
          "fee_protocol0_new", "fee_protocol1_new",
          "observation_cardinality_next_old",
          "observation_cardinality_next_new">>,
     warp_route_events |-> BaseColumns \o
        <<"origin", "destination", "recipient", "amount", "domain", "gas",
          "hook", "ism">>,
     hyperlane_events |-> BaseColumns \o
        <<"sender", "destination", "recipient", "message", "message_id",
          "origin", "hook", "module", "version", "previous_owner",
          "new_owner">>,
     erc20_events |-> BaseColumns \o
        <<"from", "to", "owner", "spender", "value">>]

\* Mutant of GetTableForEvent: an unmapped event goes to a default table.
GetTableForEvent_Default(event_name) ==
    IF event_name \in DOMAIN EVENT_TABLE_MAP
    THEN Some(EVENT_TABLE_MAP[event_name]) ELSE Some("dex_events")

\* get_table_for_event: EVENT_TABLE_MAP.get(event_name)
GetTableForEvent(event_name) ==
    IF event_name \in DOMAIN EVENT_TABLE_MAP
    THEN Some(EVENT_TABLE_MAP[event_name]) ELSE None

\* get_schema_for_table: TABLE_SCHEMAS.get(table_name, [])
GetSchemaForTable(table_name) ==
    IF table_name \in DOMAIN TABLE_SCHEMAS THEN TABLE_SCHEMAS[table_name] ELSE <<>>

Range(seq) == {seq[i] : i \in 1..Len(seq)}

\* A cell of a row: a value (named after what it was read from), Python's
\* None, or the NaN pandas puts where a row dict lacks a column's key.
ValueCell(src) == [marker |-> "value", of |-> src]

NoneCell == [marker |-> "None", of |-> ""]

NaNCell == [marker |-> "NaN", of |-> ""]

\* An input of an ABI entry.
Input(type, name, indexed) == [type |-> type, name |-> name, indexed |-> indexed]

\* The entries _load_abi_entries reads from abi_dir, in file order: a
\* function, three events with a destination table (two of them of the same
\* table), and an event with none.
AbiEntries ==
    <<[type |-> "function", name |-> "transfer",
       inputs |-> <<Input("address", <<"to">>, FALSE),
                    Input("uint256", <<"value">>, FALSE)>>],
      [type |-> "event", name |-> "Transfer",
       inputs |-> <<Input("address", <<"from">>, TRUE),
                    Input("address", <<"to">>, TRUE),
                    Input("uint256", <<"value">>, FALSE)>>],
      [type |-> "event", name |-> "Approval",
       inputs |-> <<Input("address", <<"owner">>, TRUE),
                    Input("address", <<"spender">>, TRUE),
                    Input("uint256", <<>>, FALSE)>>],
      [type |-> "event", name |-> "Burn",
       inputs |-> <<Input("address", <<"owner">>, TRUE),
                    Input("int24", <<"tick", "lower">>, TRUE),
                    Input("int24", <<"tick", "upper">>, TRUE),
                    Input("uint128", <<"amount">>, FALSE),
                    Input("uint256", <<"amount0">>, FALSE),
                    Input("uint256", <<"amount1">>, FALSE)>>],
      [type |-> "event", name |-> "Paused",
       inputs |-> <<Input("address", <<"account">>, FALSE)>>]>>

\* _build_event_registry: the dict from topic0 to the entry of type "event"
\* with that key (a later entry replaces an earlier one with the same key).
BuildEventRegistry(entries) ==
    LET events == {i \in 1..Len(entries) : entries[i].type = "event"}
        key == [i \in events |-> EventSignature(entries[i])[2]]
    IN  [k \in {key[i] : i \in events} |->
            entries[CHOOSE i \in events :
                        key[i] = k /\ \A j \in events : key[j] = k => j <= i]]

\* dict.get(key)
DictGet(dict, key) == IF key \in DOMAIN dict THEN Some(dict[key]) ELSE None

\* _is_dynamic_type, on the types of AbiEntries (none of them is an array).
IsDynamicType(type) == type \in {"string", "bytes"}

\* _normalize_column_name / _input_name: the humps joined by "_" in lower
\* case, "arg_<position>" for an empty name.
NormalizeColumnName(name, position) ==
    IF name = <<>> THEN "arg_" \o ToString(position) ELSE Join("_", name)

\* A topic as the node sends it: hexadecimal text, in lower or upper case.
TopicOf(abi, letters) == [EventTopic0(abi) EXCEPT !.letters = letters]

UnknownTopic == HexText(Keccak("Unknown()"))

IndexedTopic == HexText(Keccak("value"))

\* The logs a batch is made of: without topics; with a topic[0] no entry
\* has; of an event without table; Transfer logs (complete, with topic[0] in
\* upper case, with the last indexed topic missing, with data abi_decode
\* rejects); an Approval and a Burn log.
LogOf(abi, n_indexed, letters, data) ==
    [topics |-> <<TopicOf(abi, letters)>> \o [i \in 1..n_indexed |-> IndexedTopic],
     data |-> data]

BatchLogs ==
    {[topics |-> <<>>, data |-> "ok"],
     [topics |-> <<UnknownTopic>>, data |-> "ok"],
     LogOf(AbiEntries[5], 0, "lower", "ok"),
     LogOf(AbiEntries[2], 2, "lower", "ok"),
     LogOf(AbiEntries[2], 2, "upper", "ok"),
     LogOf(AbiEntries[2], 1, "lower", "ok"),
     LogOf(AbiEntries[2], 2, "lower", "malformed"),
     LogOf(AbiEntries[3], 2, "lower", "ok"),
     LogOf(AbiEntries[4], 3, "lower", "ok")}

\* The positions (from 0, as enumerate counts) of the inputs with the given
\* indexed flag, in order.
InputPositions(abi, indexed) ==
    SelectSeq([i \in 1..Len(abi.inputs) |-> i - 1],
              LAMBDA p : abi.inputs[p + 1].indexed = indexed)

\* _decode_event raises: abi_decode rejects the data of a log whose event has
\* non-indexed inputs.
DecodeRaises(abi, log) ==
    InputPositions(abi, FALSE) # <<>> /\ log.data = "malformed"

\* The assignments decoded[column_name] = ... of _decode_event, in order: the
\* indexed inputs against topics[1:], then the non-indexed ones from data.
DecodedWrites(abi, log) ==
    LET ix == InputPositions(abi, TRUE)
        nx == InputPositions(abi, FALSE)
    IN  [k \in 1..Len(ix) |->
            [column |-> NormalizeColumnName(abi.inputs[ix[k] + 1].name, ix[k]),
             cell   |-> IF k >= Len(log.topics) THEN NoneCell
                        ELSE IF IsDynamicType(abi.inputs[ix[k] + 1].type)
                        THEN ValueCell("topic_hash")
                        ELSE ValueCell("topic")]]
        \o [k \in 1..Len(nx) |->
            [column |-> NormalizeColumnName(abi.inputs[nx[k] + 1].name, nx[k]),
             cell   |-> ValueCell("data")]]

\* A dict built by a sequence of assignments: the last one of a key stays.
DictOf(writes) ==
    [c \in {writes[i].column : i \in 1..Len(writes)} |->
        writes[CHOOSE i \in 1..Len(writes) :
                  /\ writes[i].column = c
                  /\ \A j \in 1..Len(writes) : writes[j].column = c => j <= i].cell]

\* The row dict of lines 161-171: the eight base keys, then
\* row.update(decoded_fields).
RowOf(abi, log) ==
    LET decoded == DictOf(DecodedWrites(abi, log))
    IN  [c \in Range(BaseColumns) \cup DOMAIN decoded |->
            IF c \in DOMAIN decoded THEN decoded[c]
            ELSE IF c = "event_name" THEN ValueCell(abi.name)
            ELSE ValueCell(c)]

\* event_registry = _build_event_registry(abi_dir)
event_registry == BuildEventRegistry(AbiEntries)

\* The for loop of lines 146-175 over the rest of the batch: table_rows as a
\* function (a table without rows has no key), or the exception of a log
\* that does not decode.
RECURSIVE CollectRows(_, _)
CollectRows(batch, table_rows) ==
    IF batch = <<>> THEN [raised |-> FALSE, table_rows |-> table_rows]
    ELSE LET log == Head(batch)
             event_abi_ == IF log.topics = <<>> THEN None
                           ELSE DictGet(event_registry, Lower(log.topics[1]))
             table_name == IF event_abi_ = None THEN None
                           ELSE GetTableForEvent(event_abi_[1].name)
         IN  IF log.topics = <<>> \/ event_abi_ = None \/ table_name = None
             THEN CollectRows(Tail(batch), table_rows)
             ELSE IF DecodeRaises(event_abi_[1], log)
             THEN [raised |-> TRUE, table_rows |-> table_rows]
             ELSE CollectRows(Tail(batch),
                    [t \in DOMAIN table_rows \cup {table_name[1]} |->
                        IF t = table_name[1]
                        THEN (IF t \in DOMAIN table_rows THEN table_rows[t] ELSE <<>>)
                                \o <<RowOf(event_abi_[1], log)>>
                        ELSE table_rows[t]])

\* Mutant of FrameColumns: the frame keeps only the schema columns some row
\* has a key for (lines 186-188 left out, line 191 selecting what exists).
FrameColumns_PresentOnly(rows, schema_columns) ==
    SelectSeq(schema_columns,
              LAMBDA c : c \in UNION {DOMAIN rows[i] : i \in 1..Len(rows)})

\* The columns of the frame after line 191.
FrameColumns(rows, schema_columns) == schema_columns

\* Lines 185-191 for one table: pd.DataFrame(rows) has the union of the rows'
\* keys as columns and NaN where a row lacks a key; a schema column that no
\* row has is added holding None.
FrameOf(rows, schema_columns) ==
    LET keys == UNION {DOMAIN rows[i] : i \in 1..Len(rows)}
        columns == FrameColumns(rows, schema_columns)
    IN  [columns |-> columns,
         rows |-> [i \in 1..Len(rows) |->
                    [c \in Range(columns) |->
                        IF c \in DOMAIN rows[i] THEN rows[i][c]
                        ELSE IF c \in keys THEN NaNCell
                        ELSE NoneCell]]]

\* decode_logs as a function of the batch.
DecodeLogs(batch) ==
    LET collected == CollectRows(batch, <<>>)
        tables == {t \in DOMAIN collected.table_rows : GetSchemaForTable(t) # <<>>}
    IN  [raised |-> collected.raised,
         frames |-> IF collected.raised THEN <<>>
                    ELSE [t \in tables |->
                            FrameOf(collected.table_rows[t], GetSchemaForTable(t))]]

Batches == UNION {[1..n -> BatchLogs] : n \in 0..MaxLogs}

InitDecode ==
    /\ logs = <<>>
    /\ result = <<>>
    /\ decode_pc = "idle"

\* decode_logs(logs, chain, abi_dir)
decode_logs(batch) ==
    /\ decode_pc = "idle"
    /\ logs' = batch
    /\ LET r == DecodeLogs(batch)
       IN  /\ result' = r.frames
           /\ decode_pc' = IF r.raised THEN "raised" ELSE "returned"
    /\ UNCHANGED notDecode

\* The caller is done with the frames (or with the exception).
DropResult ==
    /\ decode_pc # "idle"
    /\ logs' = <<>>
    /\ result' = <<>>
    /\ decode_pc' = "idle"
    /\ UNCHANGED notDecode

NextDecode ==
    \/ \E batch \in Batches : decode_logs(batch)
    \/ DropResult

\* ===================================================== fetch_sync_to_dune.py

MaxNat(a, b) == IF a >= b THEN a ELSE b

\* str(block_number) of a non-negative int: its decimal digits.
RECURSIVE Str(_)
Str(n) == IF n < 10 THEN <<n>> ELSE Append(Str(n \div 10), n % 10)

\* The value of a sequence of decimal digits.
RECURSIVE DigitsValue(_)
DigitsValue(text) ==
    IF text = <<>> THEN 0
    ELSE 10 * DigitsValue(SubSeq(text, 1, Len(text) - 1)) + text[Len(text)]

\* read_last_block: None when the file is missing or empty, or when
\* int(raw, 0) raises ValueError (base 0 rejects a leading zero before other
\* digits).
ReadLastBlock(text) ==
    IF text = <<>> THEN None
    ELSE IF Len(text) > 1 /\ text[1] = 0 THEN None
    ELSE Some(DigitsValue(text))

\* Lines 148-151: max(0, last - REORG_OVERLAP_BLOCKS) when there is a last
\* block, max(0, latest - BLOCK_BATCH_SIZE) when there is none.
SyncStart(last_block, latest_block, bs, overlap) ==
    IF last_block # None THEN MaxNat(0, last_block[1] - overlap)
    ELSE MaxNat(0, latest_block - bs)

\* Line 152: min(latest, start + BLOCK_BATCH_SIZE - 1)
SyncEnd(latest_block, first, bs) == MinNat(latest_block, first + bs - 1)

\* len(fetch_logs(start, end)) on a node that answers: one row per log.
FetchLogs(first, final) == Cardinality(chain_logs \cap (first..final))

\* What a run can meet: a node and a sink that answer ("ok"); a json_rpc call
\* that fails MAX_RPC_RETRIES times; an upload that fails DUNE_UPLOAD_RETRIES
\* times (or no DUNE_API_KEY); an open() of last_block.txt that raises; a
\* write() to it that raises after the open truncated it.
SyncOutcomes == {"ok", "rpc_failed", "upload_failed", "open_failed", "write_failed"}

\* upload_to_dune(data_rows): False without rows; else whether the sink took
\* them.
UploadToDune(n_rows, outcome) ==
    IF n_rows = 0 THEN FALSE ELSE outcome # "upload_failed"

\* write_last_block(block_number): every exception is swallowed.
WriteLastBlock(text, block_number, outcome) ==
    IF outcome = "open_failed" THEN text
    ELSE IF outcome = "write_failed" THEN <<>>
    ELSE Str(block_number)

InitSync ==
    /\ chain_head = 0
    /\ chain_logs = {}
    /\ last_block_file = <<>>
    /\ sync_result = "none"
    /\ sync_batch = 1
    /\ sync_overlap = 0
    /\ sync_latest = 0
    /\ sync_last = None
    /\ sync_start = 0
    /\ sync_end = 0

\* The chain grows by one block, with or without a log in it.
Mine(has_log) ==
    /\ chain_head < MaxHead
    /\ chain_head' = chain_head + 1
    /\ chain_logs' = IF has_log THEN chain_logs \cup {chain_head + 1} ELSE chain_logs
    /\ UNCHANGED <<last_block_file, sync_result, sync_batch, sync_overlap,
                   sync_latest, sync_last, sync_start, sync_end, notSync>>

\* One run of the script (lines 145-158) with the environment's batch size
\* and overlap.
SyncRun(bs, overlap, outcome) ==
    /\ sync_batch' = bs
    /\ sync_overlap' = overlap
    /\ IF outcome = "rpc_failed"
       THEN /\ sync_result' = "rpc_failed"
            /\ UNCHANGED <<last_block_file, sync_latest, sync_last, sync_start,
                           sync_end>>
       ELSE LET latest_block == chain_head
                last_block == ReadLastBlock(last_block_file)
                first == SyncStart(last_block, latest_block, bs, overlap)
                final == SyncEnd(latest_block, first, bs)
                n_rows == FetchLogs(first, final)
                ok == UploadToDune(n_rows, outcome)
            IN  /\ sync_latest' = latest_block
                /\ sync_last' = last_block
                /\ sync_start' = first
                /\ sync_end' = final
                /\ last_block_file' =
                      IF ok THEN WriteLastBlock(last_block_file, final + 1, outcome)
                      ELSE last_block_file
                /\ sync_result' =
                      IF n_rows = 0 THEN "no_rows"
                      ELSE IF ~ok THEN "upload_failed"
                      ELSE IF outcome = "ok" THEN "uploaded"
                      ELSE outcome
    /\ UNCHANGED <<chain_head, chain_logs, notSync>>

NextSync ==
    \/ \E has_log \in BOOLEAN : Mine(has_log)
    \/ \E bs \in 1..MaxSyncBatch, overlap \in 0..MaxOverlap, outcome \in SyncOutcomes :
            SyncRun(bs, overlap, outcome)

\* ============================== pipeline.py: the rows of a pair and window

\* int(text, 16) of a hex text, given as its digits.
RECURSIVE HexValue(_)
HexValue(digits) ==
    IF digits = <<>> THEN 0
    ELSE 16 * HexValue(SubSeq(digits, 1, Len(digits) - 1)) + digits[Len(digits)]

\* A log as eth_getLogs returns it, with the fields the deduplication key and
\* the enrichment read: blockNumber and logIndex are hex texts, and the
\* transaction hash comes as the node writes it.
RawLog(block_number, tx, log_index) ==
    [blockNumber |-> block_number,
     transactionHash |-> [prefix |-> "0x", digits |-> tx, letters |-> "mixed"],
     logIndex |-> log_index]

\* The logs of the window on the chain, in chain order: two logs of one
\* transaction in block 0xa, one log in block 0x11.
ChainLogs ==
    <<RawLog(<<10>>, "tx_a", <<0>>), RawLog(<<10>>, "tx_a", <<1>>),
      RawLog(<<1, 1>>, "tx_b", <<0>>)>>

\* The headers of the chain's blocks, by block number.
ChainHeaders ==
    [b \in {HexValue(<<10>>), HexValue(<<1, 1>>)} |->
        [timestamp |-> IF b = HexValue(<<10>>) THEN <<6, 4>> ELSE <<6, 5>>]]

\* datetime.utcfromtimestamp(seconds)
UtcFromTimestamp(seconds) == [utc |-> seconds]

\* Mutant of BlocksGet: blocks[block_number], a KeyError when it is missing.
BlocksGet_Subscript(blocks, block_number) ==
    [raised |-> block_number \notin DOMAIN blocks,
     block |-> DictGet(blocks, block_number)]

\* blocks.get(block_number)
BlocksGet(blocks, block_number) ==
    [raised |-> FALSE, block |-> DictGet(blocks, block_number)]

\* enrich_logs_with_timestamps: each log gets a block_timestamp.
EnrichLogsWithTimestamps(raw_logs, blocks) ==
    LET got == [i \in 1..Len(raw_logs) |->
                    BlocksGet(blocks, HexValue(raw_logs[i].blockNumber))]
    IN  [raised |-> \E i \in 1..Len(raw_logs) : got[i].raised,
         logs |-> [i \in 1..Len(raw_logs) |->
            [blockNumber |-> raw_logs[i].blockNumber,
             transactionHash |-> raw_logs[i].transactionHash,
             logIndex |-> raw_logs[i].logIndex,
             block_timestamp |->
                IF got[i].block = None THEN UtcFromTimestamp(0)
                ELSE UtcFromTimestamp(HexValue(got[i].block[1].timestamp))]]]

\* normalize_logs: one row per log (the columns of the deduplication key,
\* the two timestamps and the chain).
NormalizeLogs(enriched_logs, chain, extracted_at) ==
    [i \in 1..Len(enriched_logs) |->
        [block_number |-> HexValue(enriched_logs[i].blockNumber),
         tx_hash |-> Lower(enriched_logs[i].transactionHash),
         log_index |-> HexValue(enriched_logs[i].logIndex),
         block_timestamp |-> enriched_logs[i].block_timestamp,
         chain |-> chain,
         extracted_at |-> extracted_at]]

\* Mutant of DedupeColumns: extracted_at is part of the key.
DedupeColumns_WithExtractedAt ==
    <<"block_number", "tx_hash", "log_index", "extracted_at">>

\* dedupe_columns of the logs upload (line 99).
DedupeColumns == <<"block_number", "tx_hash", "log_index">>

\* The key of a row under the given columns.
DedupeKey(row, columns) == [i \in 1..Len(columns) |-> row[columns[i]]]

\* Which of two rows of one key the sink keeps is not said.
SinkKeeps == {"first", "last"}

\* The sink's upload_dataframe(table, df, dedupe_columns): the table holds
\* one row per key afterwards.
UploadDataframe(table, frame, columns, keep) ==
    LET new == Range(frame)
        Same(r, s) == DedupeKey(r, columns) = DedupeKey(s, columns)
    IN  IF keep = "first"
        THEN table \cup {r \in new : \A s \in table : ~Same(r, s)}
        ELSE {s \in table : \A r \in new : ~Same(r, s)} \cup new

InitRows ==
    /\ node_logs = <<>>
    /\ blocks_map = <<>>
    /\ enriched = <<>>
    /\ df = <<>>
    /\ sink = {}
    /\ pair_result = "none"
    /\ completed = 0
    /\ df_first_keys = {}
    /\ sink_first_keys = {}

\* The window's blocks are mined with some of the logs in them; from the
\* first run on, the chain is unchanged.
NodeHolds(held) ==
    /\ pair_result = "none"
    /\ node_logs' = SelectSeq(ChainLogs, LAMBDA l : l \in held)
    /\ UNCHANGED <<blocks_map, enriched, df, sink, pair_result, completed,
                   df_first_keys, sink_first_keys, notRows>>

\* The deduplication keys of a set of rows.
KeySet(table_rows, columns) == {DedupeKey(r, columns) : r \in table_rows}

\* The try block of one pair of the window in a real run (lines 84-100):
\* the enricher returns the headers of the blocks in have, the clock reads
\* now, and either a stage raises or none does (outcome "ok"). A run that
\* raises leaves nothing behind but the dead-letter record.
ProcessPair(have, now, keep, outcome) ==
    /\ completed < MaxRuns
    /\ LET block_numbers == {HexValue(node_logs[i].blockNumber) : i \in 1..Len(node_logs)}
           blocks == [b \in block_numbers \cap have |-> ChainHeaders[b]]
           enrichment == EnrichLogsWithTimestamps(node_logs, blocks)
           frame == NormalizeLogs(enrichment.logs, "incentiv", now)
           table == UploadDataframe(sink, frame, DedupeColumns, keep)
           reached == IF outcome = "get_logs" THEN "get_logs"
                      ELSE IF node_logs = <<>> THEN "no_logs"
                      ELSE IF outcome = "get_blocks_by_number" THEN outcome
                      ELSE IF enrichment.raised THEN "enrich_logs_with_timestamps"
                      ELSE outcome
       IN  /\ pair_result' = reached
           /\ IF reached = "ok"
              THEN /\ blocks_map' = blocks
                   /\ enriched' = enrichment.logs
                   /\ df' = frame
                   /\ sink' = table
              ELSE UNCHANGED <<blocks_map, enriched, df, sink>>
           /\ IF reached \in {"ok", "no_logs"}
              THEN /\ completed' = completed + 1
                   /\ IF completed = 0
                      THEN /\ df_first_keys' = KeySet(Range(df'), DedupeColumns)
                           /\ sink_first_keys' = KeySet(sink', DedupeColumns)
                      ELSE UNCHANGED <<df_first_keys, sink_first_keys>>
              ELSE UNCHANGED <<completed, df_first_keys, sink_first_keys>>
    /\ UNCHANGED <<node_logs, notRows>>

\* The inputs of a run that its outcome lets the try block read.
PairInputs(outcome) ==
    IF outcome = "ok"
    THEN (SUBSET DOMAIN ChainHeaders) \X Instants \X SinkKeeps
    ELSE {<<{}, 0, "first">>}

NextRows ==
    \/ \E held \in SUBSET Range(ChainLogs) : NodeHolds(held)
    \/ \E outcome \in {"ok"} \cup Stages(FALSE) :
          \E inputs \in PairInputs(outcome) :
            ProcessPair(inputs[1], inputs[2], inputs[3], outcome)

Init ==
    InitReorg /\ InitLogs /\ InitBisect /\ InitHttp /\ InitChain /\ InitSig
    /\ InitDecode /\ InitSync /\ InitRows

SpecSync == Init /\ [][NextSync]_vars

SpecRows == Init /\ [][NextRows]_vars

SpecReorg == Init /\ [][NextReorg]_vars

SpecLogs == Init /\ [][NextLogs]_vars

SpecChain == Init /\ [][NextChain]_vars

SpecBisect == Init /\ [][NextBisect]_vars

SpecHttp == Init /\ [][NextHttp]_vars

SpecSig == Init /\ [][NextSig]_vars

SpecDecode == Init /\ [][NextDecode]_vars

\* ===================================================== ReorgHandler claims

\* The last call was add_block on a non-empty buffer whose tail the new block
\* does not attach to (the fork branch).
ForkCase ==
    /\ op = "add_block"
    /\ before # <<>>
    /\ arg.parent_hash # before[Len(before)].hash

\* Positions of the buffered headers (before the call) carrying the new
\* block's parent hash.
Matches == {i \in 1..Len(before) : before[i].hash = arg.parent_hash}

\* What C1 promises for the buffered header at position i.
ForkOutcome(i) ==
    /\ ret = Some(Len(before) - i)
    /\ block_buffer = Append(SubSeq(before, 1, i), arg)

\* C1 as stated: in the fork branch, for EVERY buffered header whose hash is
\* the new block's parent hash and that has k >= 1 newer headers behind it,
\* add_block returns k, drops exactly those k headers and appends the block.
C1_ForkEveryMatch ==
    ForkCase => \A i \in Matches : ForkOutcome(i)

\* C1 as amended: in the fork branch with a match, k is counted from the
\* NEWEST buffered header whose hash is the new block's parent hash;
\* add_block returns k (k >= 1), removes exactly the k newest headers, keeps
\* the older ones unchanged and in order, and appends the new block as tail.
C1_ForkNewestMatch ==
    (ForkCase /\ Matches # {}) =>
        LET i == CHOOSE m \in Matches : \A n \in Matches : n <= m
        IN  /\ Len(before) - i >= 1
            /\ ForkOutcome(i)

\* A, B, C plus D with parent B: depth 1 and buffer A, B, D.
C1_Witness ==
    /\ ForkCase
    /\ Len(before) = 3
    /\ before[2].hash = arg.parent_hash
    /\ before[1].hash # arg.parent_hash
    /\ ret = Some(1)
    /\ Len(block_buffer) = 3

\* C2: in the fork branch with no buffered header carrying the parent hash,
\* add_block returns the full buffer length before the call and the buffer
\* afterwards holds exactly the new block.
C2_ForkNoMatch ==
    (ForkCase /\ Matches = {}) =>
        /\ ret = Some(Len(before))
        /\ block_buffer = <<arg>>

C2_Witness ==
    /\ ForkCase
    /\ Matches = {}
    /\ Len(before) >= 2
    /\ block_buffer = <<arg>>

\* C3: after every call, every adjacent pair of buffered headers is linked:
\* buffer[i+1].parent_hash = buffer[i].hash.
C3_ChainLinked ==
    \A i \in 1..(Len(block_buffer) - 1) :
        block_buffer[i + 1].parent_hash = block_buffer[i].hash

\* A rollback just happened and the buffer still holds three linked headers.
C3_Witness ==
    /\ ForkCase
    /\ ret # None
    /\ Len(block_buffer) = 3

\* The last call was add_block on a non-empty buffer whose tail the new block
\* attaches to (the append branch).
AppendCase ==
    /\ op = "add_block"
    /\ before # <<>>
    /\ arg.parent_hash = before[Len(before)].hash

\* C4: in the append branch add_block returns None, the new block is the
\* tail, the earlier headers keep their order, and exactly the oldest header
\* is evicted if and only if the buffer already held buffer_size headers.
C4_Append ==
    AppendCase =>
        /\ ret = None
        /\ block_buffer[Len(block_buffer)] = arg
        /\ IF Len(before) = buffer_size
           THEN block_buffer = Append(Tail(before), arg)
           ELSE block_buffer = Append(before, arg)

\* An append onto a full buffer of at least two headers.
C4_Witness ==
    /\ AppendCase
    /\ buffer_size >= 2
    /\ Len(before) = buffer_size
    /\ ret = None

\* C5: the buffer never holds more than buffer_size headers, and an append
\* onto a full buffer drops the oldest header (the rest shift down by one).
C5_Bounded ==
    /\ Len(block_buffer) <= buffer_size
    /\ (AppendCase /\ Len(before) = buffer_size) =>
            /\ Len(block_buffer) = buffer_size
            /\ \A i \in 1..(buffer_size - 1) : block_buffer[i] = before[i + 1]

\* An overflowing append on a full buffer of three headers: the oldest one is
\* gone and the second oldest is now first.
C5_Witness ==
    /\ AppendCase
    /\ buffer_size = 3
    /\ Len(before) = 3
    /\ Len(block_buffer) = 3
    /\ block_buffer[1] = before[2]
    /\ before[1] # before[2]

C26_ConfirmedIsFinal ==
    [][(/\ op = "get_confirmed_blocks"
        /\ confirmed # <<>>
        /\ op' = "add_block"
        /\ ret' # None) => ret'[1] < Len(block_buffer)]_vars

\* C27: add_block returns None exactly when the buffer was empty or the new
\* block's parent_hash is the tail's hash; otherwise it returns a depth d
\* with 1 <= d <= (buffer length before the call), and the buffer length
\* after the call is (length before - d + 1).
C27_ResultRange ==
    op = "add_block" =>
        /\ (ret = None) <=>
              (before = <<>> \/ arg.parent_hash = before[Len(before)].hash)
        /\ ret # None =>
              /\ 1 <= ret[1]
              /\ ret[1] <= Len(before)
              /\ Len(block_buffer) = Len(before) - ret[1] + 1

\* A fork two headers deep in a buffer of three: depth 2, two headers left.
C27_Witness ==
    /\ ForkCase
    /\ Len(before) = 3
    /\ ret = Some(2)
    /\ Len(block_buffer) = 2

\* ===================================================== run_logs_etl claims

\* The cursor a restart would read from state.json.
Persisted == GetLastBlock(LoadState(state_file))

\* C7 as stated: once a pair of the window [start, end] has raised, no step
\* advances the persisted last_block to end or beyond.
C7_FailureHaltsCursor ==
    [][(failed # {} /\ state_file' # state_file)
          => GetLastBlock(LoadState(state_file')) < end]_vars

\* The step is a pair of the window raising.
PairRaisedStep ==
    /\ pc = "pair"
    /\ failed \subseteq failed'
    /\ failed' # failed

\* The step writes payload into exactly one dead-letter file and touches no
\* other file.
OneFileWritten(payload) ==
    \E t \in Instants :
        /\ dlq_files'[t] = Some(payload)
        /\ \A u \in Instants \ {t} : dlq_files'[u] = dlq_files[u]

\* C8: a pair that raises writes exactly one dead-letter record with its
\* contract, topic, from_block and to_block; the loop goes on to the next
\* pair of the same window (or to the window's end) and is not aborted; and a
\* run in which a pair raised still returns only after every pair of every
\* window of [start_block, safe_block] was tried.
C8_FailureIsolated ==
    [][/\ PairRaisedStep =>
            /\ OneFileWritten(DlqRecord(Contracts[ci], Topics[ti], start, end))
            /\ start' = start /\ end' = end
            /\ attempted' = attempted \cup {<<Contracts[ci], Topics[ti]>>}
            /\ IF attempted' = AllPairs
               THEN pc' = "save"
               ELSE pc' = "pair" /\ <<Contracts[ci'], Topics[ti']>> \notin attempted'
       /\ (run_failed' /\ pc' = "done") =>
            /\ covered' = start_block'..safe_block'
            /\ attempted' = AllPairs
      ]_vars

\* A run of at least two windows returned normally; a pair of an earlier
\* window had raised, none of the last window did.
C8_Witness ==
    /\ pc = "done"
    /\ run_failed
    /\ failed = {}
    /\ start > start_block
    /\ covered = start_block..safe_block

\* C9 as stated (second half): while a pair of the window [start, end] is
\* still untried, the persisted last_block is below end.
C9_CursorBelowOpenWindow ==
    (pc = "pair" /\ attempted # AllPairs) => Persisted < end

\* C9 as amended: a cursor value is written to the state file only when it is
\* the end of the current window and every pair of that window has been
\* tried; and in a run started without --from-block the persisted last_block
\* stays below end while a pair of the window is still untried.
C9_CursorAfterAllPairs ==
    [][/\ (state_file' # state_file /\ state_file' # None) =>
            /\ state_file' = Some(end)
            /\ attempted = AllPairs
       /\ (pc' = "pair" /\ attempted' # AllPairs /\ from_block' = None) =>
            GetLastBlock(LoadState(state_file')) < end'
      ]_vars

\* The cursor of a window was written after both pairs were tried, one of
\* which had raised, in a run without --from-block.
C9_Witness ==
    /\ pc = "next"
    /\ from_block = None
    /\ state_file = Some(end)
    /\ attempted = AllPairs
    /\ failed # {}
    /\ Cardinality(AllPairs) >= 2

\* C10 as stated: a run without overrides, whatever interrupted the run
\* before it, works only on windows above the last cursor that was persisted:
\* it starts at that cursor + 1, fetches no block at or below it, and so
\* writes no dead-letter record again for a window completed before.
C10_ExactResumption ==
    (pc \in {"pair", "save", "write"} /\ from_block = None /\ to_block = None) =>
        /\ start_block >= 1
        /\ start > last_good

\* C11 as stated: across windows and runs, --from-block and --to-block
\* overrides included, a last_block value about to be written to the state
\* file is never below the last value that was written before it.
C11_CursorMonotonic ==
    pc = "write" => GetLastBlock(state) >= last_good

\* C12 as stated: whenever a process starts (after a normal exit or a crash
\* at any point, save_state included), load_state reads the last cursor that
\* save_state wrote completely, never an empty or reset one.
C12_AtomicSave ==
    pc = "idle" => Persisted = last_good

\* The dead-letter files that hold a record.
DlqWritten(files) == {t \in Instants : files[t] # None}

InWindow == pc \in {"pair", "save", "write", "next"}

\* C24: every window [start, end] of run_logs_etl satisfies start_block <=
\* start <= end <= safe_block, and no cursor value above safe_block is
\* recorded; a run with start_block > safe_block returns having tried no
\* pair, written no dead-letter record and left the state file as it was
\* loaded.
C24_SafeHeadBound ==
    /\ InWindow =>
          /\ start_block <= start
          /\ start <= end
          /\ end <= safe_block
    /\ pc \in {"write", "next"} => GetLastBlock(state) <= safe_block
    /\ covered \subseteq start_block..safe_block
    /\ (pc = "done" /\ start_block > safe_block) =>
          /\ attempted = {}
          /\ covered = {}
          /\ DlqWritten(dlq_files) = {}
          /\ state_file = state

\* The last window of a run of at least two windows, cut short at safe_block.
C24_Witness ==
    /\ pc = "pair"
    /\ start > start_block
    /\ end = safe_block
    /\ end - start + 1 < batch_size

\* C25: the windows of a run with start_block <= safe_block are consecutive
\* and pairwise disjoint (each starts a whole number of batch_size steps
\* after start_block, right after the blocks of the windows before it), each
\* covers exactly batch_size blocks except possibly the last, which ends at
\* safe_block; when the run returns the windows cover exactly [start_block,
\* safe_block] and the cursor, in memory and in the file, is safe_block.
C25_WindowPartition ==
    /\ InWindow =>
          /\ (start - start_block) % batch_size = 0
          /\ \/ end - start + 1 = batch_size
             \/ /\ end = safe_block
                /\ start <= end
                /\ end - start + 1 < batch_size
          /\ covered = IF pc \in {"pair", "save"} THEN start_block..(start - 1)
                       ELSE start_block..end
    /\ (pc = "done" /\ start_block <= safe_block) =>
          /\ end = safe_block
          /\ covered = start_block..safe_block
          /\ state = Some(safe_block)
          /\ state_file = Some(safe_block)

\* A run over [1, 3] in windows of two blocks returned: [1, 2] and [3, 3].
C25_Witness ==
    /\ pc = "done"
    /\ batch_size = 2
    /\ start_block = 1
    /\ safe_block = 3
    /\ start = 3
    /\ covered = 1..3
    /\ state_file = Some(3)

\* C28 as stated (the cursor): no step of a run with --dry-run changes the
\* last_block that the state file holds.
C28_DryRunLeavesCursor ==
    [][dry_run => state_file' = state_file]_vars

\* ===================================================== get_rpc_logs claims

BlocksOf(r) == r[1]..r[2]

\* C13 as stated: when get_rpc_logs returns after any pattern of oversized
\* rejections, the sub-ranges the upstream answered are pairwise disjoint,
\* their union is exactly [from_block, to_block], and the returned count is
\* the number of logs of the whole range (none counted twice, none missed).
C13_ExactCoverage ==
    (returned # None /\ only_oversized) =>
        /\ \A i, j \in 1..Len(answered) :
              i # j => BlocksOf(answered[i]) \cap BlocksOf(answered[j]) = {}
        /\ UNION {BlocksOf(answered[i]) : i \in 1..Len(answered)} = BlocksOf(rpc_range)
        /\ returned = Some(LogCount(rpc_range[1], rpc_range[2]))

\* C14 as stated: while the upstream rejects every query as oversized, no
\* frame with from_block = to_block calls get_rpc_logs again and the
\* recursion does not run into the interpreter's limit.
C14_BisectionTerminates ==
    always_rejected => (~recursed_single /\ raised = "none")

\* C15 as stated: once the single-block query of a block was rejected as
\* oversized, get_rpc_logs of verify_backfill.py does not return a count (it
\* fails instead).
C15_SingleBlockFatal ==
    (script = "verify_backfill" /\ single_rejected # {}) => returned = None

\* ================================================ HttpClient._request claims

\* C16: a _request makes at most max_retries attempts; when it returns, the
\* response is that of its last attempt, which is the first one that
\* succeeded; and it raises exactly when max_retries attempts were made and
\* all of them failed.
C16_RetryBudget ==
    /\ Len(outcomes) <= max_retries
    /\ http_pc = "returned" =>
          /\ outcomes[Len(outcomes)] = "ok"
          /\ \A i \in 1..(Len(outcomes) - 1) : outcomes[i] # "ok"
          /\ response = Some(Len(outcomes) - 1)
    /\ http_pc = "raised" =>
          /\ Len(outcomes) = max_retries
          /\ \A i \in 1..Len(outcomes) : outcomes[i] # "ok"
    /\ http_pc = "attempt" => \A i \in 1..Len(outcomes) : outcomes[i] # "ok"

\* A client with a budget of three attempts raised after three failures.
C16_Witness ==
    /\ http_pc = "raised"
    /\ max_retries = 3
    /\ Len(outcomes) = 3

\* ===================================== run_blocks_transactions_etl claims

\* C17 as stated, for the blocks/transactions stream: once a batch has
\* raised, a dead-letter record has been written and the run is not aborted.
C17_FailureDegrades ==
    chain_failed # {} =>
        /\ \E t \in Instants : dlq_files[t] # None
        /\ chain_pc # "aborted"

\* C29 as stated: whenever a run writes b as last_chain_block to the state
\* file, every block of [start_block, b] had its header returned and was
\* handed to normalization and upload in that run.
C29_CursorCoversHanded ==
    [][(chain_file' # chain_file /\ chain_file' # None) =>
          (chain_start_block..chain_file'[1]) \subseteq handed]_vars

\* ================================================= _event_signature claims

\* C20: two calls (of _event_signature or of event_topic0) on descriptors
\* with the same event name and the same ordered parameter types, whatever
\* the parameter names and indexed flags, give the same signature and the
\* same key; so do two calls on the same descriptor.
C20_SignatureDeterminism ==
    relation \in {"identical", "same_signature"} =>
        /\ prev_signature = Some(signature)
        /\ prev_topic0 = topic0

\* Two descriptors of two parameters of different types that differ in a
\* parameter name or an indexed flag got the same key.
C20_Witness ==
    /\ relation = "same_signature"
    /\ Len(event_abi.inputs) = 2
    /\ event_abi.inputs[1].type # event_abi.inputs[2].type
    /\ prev_topic0 = topic0
    /\ topic0 # None

\* ====================================================== decode_logs claims

\* The events of AbiEntries, by key.
EventByKey ==
    [k \in {EventSignature(e)[2] : e \in {x \in Range(AbiEntries) : x.type = "event"}} |->
        CHOOSE e \in Range(AbiEntries) : e.type = "event" /\ EventSignature(e)[2] = k]

RegistryKeys == DOMAIN EventByKey

\* The entry a log's topic[0] (in lower case) is the key of.
EventOf(log) == EventByKey[Lower(log.topics[1])]

\* The logs C18 is about: no topics, a topic[0] that is no key of the
\* registry, or an event whose name has no destination table.
Skipped(log) ==
    \/ log.topics = <<>>
    \/ Lower(log.topics[1]) \notin RegistryKeys
    \/ EventOf(log).name \notin DOMAIN EVENT_TABLE_MAP

\* The number of rows over all frames of the result.
RECURSIVE RowCount(_)
RowCount(frames) ==
    IF DOMAIN frames = {} THEN 0
    ELSE LET t == CHOOSE u \in DOMAIN frames : TRUE
         IN  Len(frames[t].rows)
               + RowCount([u \in DOMAIN frames \ {t} |-> frames[u]])

\* C18: decode_logs ends exactly as it does on the batch without its skipped
\* logs (same frames, same rows, and an exception only if the other logs
\* alone raise one); a batch of skipped logs only returns no frame at all;
\* and the frames hold one row per log that is not skipped.
C18_SkipsSilently ==
    decode_pc # "idle" =>
        LET kept == SelectSeq(logs, LAMBDA l : ~Skipped(l))
            alone == DecodeLogs(kept)
        IN  /\ alone.raised = (decode_pc = "raised")
            /\ alone.frames = result
            /\ kept = <<>> => (decode_pc = "returned" /\ DOMAIN result = {})
            /\ decode_pc = "returned" => RowCount(result) = Len(kept)

\* A batch of a log without topics, a log of an event without table and a
\* Transfer log returned one row.
C18_Witness ==
    /\ decode_pc = "returned"
    /\ Len(logs) = 3
    /\ \E i, j, k \in 1..3 :
          /\ logs[i].topics = <<>>
          /\ logs[j].topics # <<>> /\ Lower(logs[j].topics[1]) \in RegistryKeys
          /\ Skipped(logs[j])
          /\ ~Skipped(logs[k])
    /\ RowCount(result) = 1

\* The logs of the batch that are routed to table t, in batch order.
RoutedTo(t) ==
    SelectSeq(logs, LAMBDA l : ~Skipped(l) /\ EVENT_TABLE_MAP[EventOf(l).name] = t)

\* The columns the parameters of an event produce, and the base columns.
ProducedBy ==
    [k \in RegistryKeys |->
        Range(BaseColumns)
            \cup {NormalizeColumnName(EventByKey[k].inputs[p].name, p - 1) :
                    p \in 1..Len(EventByKey[k].inputs)}]

Produced(log) == ProducedBy[Lower(log.topics[1])]

\* What C19 says of the frame of table t but the absence marker: the columns
\* are the schema's in schema order, and row i is the row of the i-th log
\* routed to the table.
FrameFollowsSchema(t, routed) ==
    /\ result[t].columns = TABLE_SCHEMAS[t]
    /\ Len(result[t].rows) = Len(routed)
    /\ \A i \in 1..Len(result[t].rows) :
          /\ DOMAIN result[t].rows[i] = Range(TABLE_SCHEMAS[t])
          /\ result[t].rows[i]["event_name"] = ValueCell(EventOf(routed[i]).name)

\* The tables of the result are those the event-name map assigns to some log
\* of the batch.
TablesFollowMap ==
    DOMAIN result = {t \in DOMAIN TABLE_SCHEMAS : RoutedTo(t) # <<>>}

LastOr(last_block) == IF last_block = None THEN -1 ELSE last_block[1]

\* C30 as stated: after a run that the node and the sink answered, with
\* BLOCK_BATCH_SIZE > REORG_OVERLAP_BLOCKS and a window that ends below the
\* chain head, the persisted last block is above what it was before the run,
\* windows without logs included; after a run whose upload failed it is what
\* it was before.
C30_SyncProgress ==
    /\ (/\ sync_result \in {"uploaded", "no_rows"}
        /\ sync_batch > sync_overlap
        /\ sync_end < sync_latest) =>
            LastOr(ReadLastBlock(last_block_file)) > LastOr(sync_last)
    /\ sync_result = "upload_failed" =>
            ReadLastBlock(last_block_file) = sync_last

\* ================================================= rows of a pair: claims

\* C21: once the window has been processed, processing it again on the
\* unchanged chain gives a frame with the same deduplication keys
\* (block_number, tx_hash, log_index) as the first time, and the sink holds
\* one row per key, for the same keys as after the first run.
C21_Idempotent ==
    completed >= 1 =>
        /\ KeySet(Range(df), DedupeColumns) = df_first_keys
        /\ KeySet(sink, DedupeColumns) = sink_first_keys
        /\ Cardinality(sink) = Cardinality(sink_first_keys)

\* The window's three logs were processed twice, at different instants: the
\* sink holds three rows, those of the first run.
C21_Witness ==
    /\ completed = 2
    /\ pair_result = "ok"
    /\ Len(df) = 3
    /\ Cardinality(sink) = 3
    /\ \A r \in sink : r.extracted_at # df[1].extracted_at

\* C22: enrich_logs_with_timestamps raises nothing; every log of the input
\* comes out, in order and otherwise unchanged, with a block_timestamp,
\* which is time 0 exactly for the logs whose block number is not in the
\* header map and the header's timestamp for the others.
C22_MissingHeaderIsEpoch ==
    /\ pair_result # "enrich_logs_with_timestamps"
    /\ pair_result = "ok" =>
          /\ Len(enriched) = Len(node_logs)
          /\ \A i \in 1..Len(node_logs) :
                LET block_number == HexValue(node_logs[i].blockNumber)
                IN  /\ enriched[i].blockNumber = node_logs[i].blockNumber
                    /\ enriched[i].transactionHash = node_logs[i].transactionHash
                    /\ enriched[i].logIndex = node_logs[i].logIndex
                    /\ enriched[i].block_timestamp =
                          IF block_number \in DOMAIN blocks_map
                          THEN UtcFromTimestamp(HexValue(blocks_map[block_number].timestamp))
                          ELSE UtcFromTimestamp(0)

\* Three logs, the header of block 0xa missing from the map: its two logs
\* carry time 0, the log of block 0x11 its header's time (0x65).
C22_Witness ==
    /\ pair_result = "ok"
    /\ Len(enriched) = 3
    /\ DOMAIN blocks_map = {17}
    /\ enriched[1].block_timestamp = UtcFromTimestamp(0)
    /\ enriched[2].block_timestamp = UtcFromTimestamp(0)
    /\ enriched[3].block_timestamp = UtcFromTimestamp(101)

====
